---- MODULE Spec2Model ----
(***************************************************************************)
(* LED_Matrix.ino: an 8x8 LED matrix scrolling a message.  The message     *)
(* matrix (ring buffer) holds the bitmaps of three characters, the         *)
(* hardware matrix is a sliding window on it.                              *)
(***************************************************************************)
EXTENDS Integers, Sequences, FiniteSets, TLC

\* ---------------------------------------------------------------- constants
NUM_HW_ROWS == 8
NUM_HW_COLUMNS == 8
CHAR_HEIGHT == 7
CHAR_WIDTH == 6
MAX_CHARS_DISPLAYED == 3
NUM_MSG_COLUMNS == CHAR_WIDTH * MAX_CHARS_DISPLAYED
CHAR_DEF_MATRIX_COLUMN_COUNT == CHAR_WIDTH + 1
CHAR_DEF_MATRIX_ROW_COUNT == 27
INTERCOLUMN_DELAY == 2
SCROLLING_DELAY == 60

\* width of the Arduino type byte (8 bits)
ByteMod == 256

\* ------------------------------------------------------------------- bounds
\* insertions the orchestrator may perform beyond one pass over the message
MaxExtraInsertions == 8
\* length of the long message (one more than fits an 8-bit message index)
LongLen == 257
\* scan passes of one displayHWbuffer call that are counted
MaxPasses == 6
\* length of the messages the loop is followed forever on
MaxLiveLen == 3

\* the string terminator '\0'
NUL == "NUL"

Rows == 0 .. (NUM_HW_ROWS - 1)
HWCols == 0 .. (NUM_HW_COLUMNS - 1)
MsgCols == 0 .. (NUM_MSG_COLUMNS - 1)

\* Matrix containing character bitmap definitions: the character, then the
\* CHAR_WIDTH column bitmasks.
charDefMatrix ==
  << <<"a",0,2,21,21,21,15>>,
     <<"b",0,255,5,9,9,6>>,
     <<"c",0,14,17,17,17,2>>,
     <<"d",0,6,9,9,5,255>>,
     <<"e",0,14,21,21,21,12>>,
     <<"f",0,8,63,72,64,32>>,
     <<"g",0,24,37,37,37,62>>,
     <<"h",0,255,8,16,16,15>>,
     <<"i",0,0,0,47,0,0>>,
     <<"j",0,2,1,17,94,0>>,
     <<"k",0,127,4,10,17,0>>,
     <<"l",0,0,65,127,1,0>>,
     <<"m",0,31,16,12,16,15>>,
     <<"n",0,31,8,16,16,15>>,
     <<"o",0,14,17,17,17,14>>,
     <<"p",0,31,20,20,20,8>>,
     <<"q",0,8,20,20,12,31>>,
     <<"r",0,31,8,16,16,8>>,
     <<"s",0,9,21,21,21,2>>,
     <<"t",0,16,126,17,1,2>>,
     <<"u",0,31,1,1,2,31>>,
     <<"v",0,28,2,1,2,28>>,
     <<"w",0,30,1,6,1,30>>,
     <<"x",0,17,10,4,10,17>>,
     <<"y",0,24,5,5,5,62>>,
     <<"z",0,17,19,21,25,17>>,
     <<" ",0,0,0,0,0,0>> >>

TableChars == { charDefMatrix[j][1] : j \in 1 .. CHAR_DEF_MATRIX_ROW_COUNT }

\* ------------------------------------------------------------ byte helpers
RECURSIVE Pow2(_)
Pow2(n) == IF n = 0 THEN 1 ELSE 2 * Pow2(n - 1)

\* powerOfTwo after `row` iterations of "powerOfTwo = powerOfTwo * 2" on a byte
PowerOfTwo(row) == Pow2(row) % ByteMod

\* v & p, for p zero or a single bit
BitAnd(v, p) == IF p = 0 THEN 0 ELSE ((v \div p) % 2) * p

\* ---------------------------------------------------------- clearMsgMatrix
clearMsgMatrix == [r \in Rows |-> [c \in MsgCols |-> 0]]

\* The storage of msgMatrix is NUM_HW_ROWS * NUM_MSG_COLUMNS consecutive
\* bytes, row after row; element [r][c] is at offset r * NUM_MSG_COLUMNS + c.
FlatOffset(r, c) == r * NUM_MSG_COLUMNS + c
InMsgMatrix(r, c) == r \in Rows /\ c \in MsgCols
InStorage(r, c) == FlatOffset(r, c) \in 0 .. (NUM_HW_ROWS * NUM_MSG_COLUMNS - 1)
FlatRow(r, c) == FlatOffset(r, c) \div NUM_MSG_COLUMNS
FlatCol(r, c) == FlatOffset(r, c) % NUM_MSG_COLUMNS

\* What an access outside the bounds of the array does is undefined: it may
\* fall on the element at the same offset of the storage, or on other memory.
\* ("other": a write lands outside msgMatrix; "zero", "ones": a read finds
\* 0 or 255 there.)
OOBChoices == {"alias", "zero", "ones"}

\* ------------------------------------------------------ insertCharInMatrix
\* The linear scan for the character: the first matching row, 0 if none.
FindChar(c) ==
  LET hits == { j \in 1 .. CHAR_DEF_MATRIX_ROW_COUNT : charDefMatrix[j][1] = c }
  IN  IF hits = {} THEN 0 ELSE CHOOSE j \in hits : \A k \in hits : j <= k

\* (a variant that takes the bitmap column number itself for the offset)
InsertColumnFromOne(columnPtr, col) == columnPtr + col

\* currentColumnPtr when bitmap column `col` (1 .. CHAR_WIDTH) is written:
\* it starts at columnPtr and is incremented after every column, never wrapped.
InsertColumn(columnPtr, col) == columnPtr + (col - 1)

\* (a variant that counts the rows from the height of a character)
InsertRowOfHeight(row) == CHAR_HEIGHT - row - 1

\* The row written for bit `row` of a column bitmask.
InsertRow(row) == NUM_HW_ROWS - row - 1

\* The writes of insertCharInMatrix(c, msgMatrix, columnPtr), as a set of
\* <<row index, column index, value>>.
InsertWrites(c, columnPtr) ==
  LET j == FindChar(c)
  IN  IF j = 0 THEN {}
      ELSE { << InsertRow(row), InsertColumn(columnPtr, col),
                BitAnd(charDefMatrix[j][col + 1], PowerOfTwo(row)) >> :
               col \in 1 .. (CHAR_DEF_MATRIX_COLUMN_COUNT - 1),
               row \in 0 .. (CHAR_HEIGHT - 1) }

\* msgMatrix after the writes; `how` says what a write outside the array does.
InsertResult(c, M, columnPtr, how) ==
  LET W == InsertWrites(c, columnPtr)
      Hits(r, k) == { w \in W :
                        \/ w[1] = r /\ w[2] = k
                        \/ /\ how = "alias"
                           /\ ~InMsgMatrix(w[1], w[2])
                           /\ InStorage(w[1], w[2])
                           /\ FlatRow(w[1], w[2]) = r
                           /\ FlatCol(w[1], w[2]) = k }
  IN  [r \in Rows |-> [k \in MsgCols |->
         IF Hits(r, k) = {} THEN M[r][k]
         ELSE (CHOOSE w \in Hits(r, k) : TRUE)[3]]]

InsertOutcomes(c, M, columnPtr) ==
  { InsertResult(c, M, columnPtr, how) : how \in {"alias", "other"} }

\* ------------------------------------------------------------ fillHWbuffer
\* The wraparound test inside the row loop.
FillWrap(w) == IF w = NUM_MSG_COLUMNS THEN 0 ELSE w

\* workingWindowColPtr at the start of hardware column `col`.
RECURSIVE FillStart(_, _)
FillStart(windowColPtr, col) ==
  IF col = 0 THEN windowColPtr
  ELSE (FillWrap(FillStart(windowColPtr, col - 1)) + 1) % ByteMod

\* The message-matrix column read for HW_Matrix[row][col]: row 0 is read
\* before the first wraparound test of the column, the other rows after it.
FillIndex(windowColPtr, row, col) ==
  IF row = 0 THEN FillStart(windowColPtr, col)
  ELSE FillWrap(FillStart(windowColPtr, col))

\* The value a read of msgMatrix[r][k] yields.
ReadMsgMatrix(M, r, k, how) ==
  IF InMsgMatrix(r, k) THEN M[r][k]
  ELSE IF how = "alias" /\ InStorage(r, k) THEN M[FlatRow(r, k)][FlatCol(r, k)]
  ELSE IF how = "ones" THEN ByteMod - 1
  ELSE 0

FillResult(windowColPtr, M, how) ==
  [row \in Rows |-> [col \in HWCols |->
     ReadMsgMatrix(M, row, FillIndex(windowColPtr, row, col), how)]]

FillOutcomes(windowColPtr, M) ==
  { FillResult(windowColPtr, M, how) : how \in OOBChoices }

\* the index pairs fillHWbuffer reads from msgMatrix and writes to HW_Matrix
FillReads(windowColPtr) ==
  { << row, FillIndex(windowColPtr, row, col) >> : row \in Rows, col \in HWCols }
FillWrites == { << row, col >> : row \in Rows, col \in HWCols }

\* the index pairs insertCharInMatrix writes in msgMatrix
InsertAccess(c, columnPtr) == { << w[1], w[2] >> : w \in InsertWrites(c, columnPtr) }

\* --------------------------------------------------------- displayHWbuffer
\* (a variant that subscripts the hardware matrix column first)
RowLinesTransposed(HWmatrix, col) == [r \in Rows |-> HWmatrix[col][r] # 0]

\* HIGH is TRUE, LOW is FALSE.  The row lines as set for hardware column col.
RowLines(HWmatrix, col) == [r \in Rows |-> HWmatrix[r][col] # 0]
AllLow == [c \in HWCols |-> FALSE]

\* One scan pass holds each of the NUM_HW_COLUMNS columns for columnTime ms.
PassTime(columnTime) == NUM_HW_COLUMNS * columnTime

\* Scan passes made from `elapsed` ms on: the while loop tests
\* currentMillis - previousMillis < interval before every pass.
RECURSIVE DisplayPasses(_, _, _)
DisplayPasses(elapsed, columnTime, interval) ==
  IF elapsed < interval
  THEN 1 + DisplayPasses(elapsed + PassTime(columnTime), columnTime, interval)
  ELSE 0

\* ------------------------------------------------------------ scrollWindow
\* (a variant that tests the width of the display instead of a character's)
IsDisplayBoundary(w) == w % NUM_HW_COLUMNS = 0

\* (a variant for characters one column narrower than CHAR_WIDTH)
IsNarrowCharBoundary(w) == w % (CHAR_WIDTH - 1) = 0

\* "have we advanced a complete character width?"
IsCharBoundary(w) == w % CHAR_WIDTH = 0

\* (a variant that advances the tail by the width of the display)
WrapTailByDisplay(t) == (t + NUM_HW_COLUMNS) % NUM_MSG_COLUMNS

\* tailPtr += CHAR_WIDTH; if (tailPtr == NUM_MSG_COLUMNS) tailPtr = 0;
WrapTail(t) ==
  LET n == (t + CHAR_WIDTH) % ByteMod
  IN  IF n = NUM_MSG_COLUMNS THEN 0 ELSE n

\* (a variant that wraps one column late)
WrapWindowLate(w) == IF w > NUM_MSG_COLUMNS THEN 0 ELSE w

\* if (windowPtr == NUM_MSG_COLUMNS) windowPtr = 0;
WrapWindow(w) == IF w = NUM_MSG_COLUMNS THEN 0 ELSE w

\* msgCharPtr++ on a byte
NextMsgChar(p) == (p + 1) % ByteMod

\* The characters a read of msg[i] can yield: the i-th character, the
\* terminator after the last one, and whatever follows the string in memory
\* beyond the terminator.
BeyondChars == {NUL, "a", "?"}
MsgRead(m, i) ==
  IF i < Len(m) THEN {m[i + 1]}
  ELSE IF i = Len(m) THEN {NUL}
  ELSE BeyondChars

\* -------------------------------------------------------------- messages
testMsg == << " ", "h", "i", " ", "h", "o", "w", " ", "a", "r", "e", " ",
              "y", "o", "u", " ", "t", "o", "d", "a", "y" >>
\* messages longer than an 8-bit index can address: "aa...ab" and "aa...a?b"
LongMsg == [k \in 1 .. LongLen |-> IF k = LongLen THEN "b" ELSE "a"]
LongMsgUnknown ==
  [k \in 1 .. LongLen |->
     IF k = LongLen THEN "b" ELSE IF k = LongLen - 1 THEN "?" ELSE "a"]
Messages == { << >>, << " ", "h", "i" >>, << "a", "b" >>, << "a", "?", "b" >>,
              << "a", "b", "c", "?" >>, testMsg, LongMsg, LongMsgUnknown }

\* cycles the orchestrator is followed for
MaxCycles(m) == CHAR_WIDTH * (Len(m) + MaxExtraInsertions)

\* ------------------------------------------------------------------ state
VARIABLES
  pc,          \* where the control is: "fill", "display", "advance"
  msg,         \* the message, without its terminator
  msgMatrix,   \* the message matrix (ring buffer)
  hwBuffer,    \* the hardware matrix (frame)
  tailPtr,     \* column of msgMatrix where the next bitmap is inserted
  windowPtr,   \* leftmost column of msgMatrix displayed
  msgCharPtr,  \* index in msg of the next character to insert
  rowPin,      \* level of the row output lines
  colPin,      \* level of the column output lines
  clock,       \* millis(), far from the wrap of its 32 bits
  cycles,      \* history: completed iterations of the while (true) loop
  insertions,  \* history: calls of insertCharInMatrix made
  lastInsert,  \* history: arguments of the last insertCharInMatrix call
  lastFill,    \* history: windowColPtr of the last fillHWbuffer call, or -1
  access,      \* history: the index pairs the last call used
  scan         \* the locals of a displayHWbuffer call followed step by step

vars == << pc, msg, msgMatrix, hwBuffer, tailPtr, windowPtr, msgCharPtr,
           rowPin, colPin, clock, cycles, insertions, lastInsert, lastFill,
           access, scan >>

NoAccess == [ringReads |-> {}, ringWrites |-> {}, frameWrites |-> {}]
NoInsert == [c |-> NUL, columnPtr |-> 0, before |-> clearMsgMatrix]
\* displayHWbuffer's parameters and locals; passes and asserted are history:
\* the scan passes completed, the columns turned on in the current pass
NoScan == [columnTime |-> INTERCOLUMN_DELAY, interval |-> SCROLLING_DELAY,
           currentMillis |-> 0, previousMillis |-> 0, ledColumn |-> 0,
           currentColumnPtr |-> 0, passes |-> 0, asserted |-> << >>]

\* hwBuffer is a local array that is not initialised
UninitFrames == { [r \in Rows |-> [c \in HWCols |-> v]] : v \in {0, ByteMod - 1} }

\* The state when scrollWindow enters its loop, after setup() and
\* clearMsgMatrix(msgMatrix).
InitLocals ==
  /\ msgMatrix = clearMsgMatrix
  /\ hwBuffer \in UninitFrames
  /\ tailPtr = 0
  /\ windowPtr = 0
  /\ msgCharPtr = 0
  /\ rowPin = [r \in Rows |-> FALSE]
  /\ colPin = AllLow
  /\ clock = 0
  /\ cycles = 0
  /\ insertions = 0
  /\ lastInsert = NoInsert
  /\ lastFill = -1
  /\ access = NoAccess
  /\ scan = NoScan

Init ==
  /\ pc = "fill"
  /\ msg \in Messages
  /\ InitLocals

\* fillHWbuffer(windowPtr, msgMatrix, hwBuffer)
Fill ==
  /\ pc = "fill"
  /\ \E f \in FillOutcomes(windowPtr, msgMatrix) : hwBuffer' = f
  /\ lastFill' = windowPtr
  /\ access' = [ringReads |-> FillReads(windowPtr), ringWrites |-> {},
                frameWrites |-> FillWrites]
  /\ pc' = "display"
  /\ UNCHANGED << scan, msg, msgMatrix, tailPtr, windowPtr, msgCharPtr, rowPin,
                  colPin, clock, cycles, insertions, lastInsert >>

\* displayHWbuffer(hwBuffer, INTERCOLUMN_DELAY, SCROLLING_DELAY), from its
\* call to its return: the passes it makes leave the row lines as set for the
\* last column, every column line low, and the clock advanced by the holds.
Display ==
  /\ pc = "display"
  /\ rowPin' = RowLines(hwBuffer, NUM_HW_COLUMNS - 1)
  /\ colPin' = AllLow
  /\ clock' = clock + DisplayPasses(0, INTERCOLUMN_DELAY, SCROLLING_DELAY)
                        * PassTime(INTERCOLUMN_DELAY)
  /\ pc' = "advance"
  /\ UNCHANGED << scan, msg, msgMatrix, hwBuffer, tailPtr, windowPtr, msgCharPtr,
                  cycles, insertions, lastInsert, lastFill, access >>

\* The rest of the loop body: advance the window, insert the next character
\* when a character width has gone by, wrap the pointers.  With `counted` the
\* cycles and insertions are counted, up to MaxCycles; without, the loop is
\* followed forever and the two history counters stay as they are.
AdvanceStep(counted) ==
  /\ pc = "advance"
  /\ counted => cycles < MaxCycles(msg)
  /\ LET w == (windowPtr + 1) % ByteMod IN
       /\ IF IsCharBoundary(w)
          THEN \E c0 \in MsgRead(msg, msgCharPtr) :
                 LET p == IF c0 = NUL THEN 0 ELSE msgCharPtr IN
                 \E c \in (IF p = msgCharPtr THEN {c0} ELSE MsgRead(msg, p)) :
                 \E M \in InsertOutcomes(c, msgMatrix, tailPtr) :
                   /\ msgMatrix' = M
                   /\ msgCharPtr' = NextMsgChar(p)
                   /\ tailPtr' = WrapTail(tailPtr)
                   /\ insertions' = IF counted THEN insertions + 1
                                    ELSE insertions
                   /\ lastInsert' = [c |-> c, columnPtr |-> tailPtr,
                                     before |-> msgMatrix]
                   /\ access' = [ringReads |-> {},
                                 ringWrites |-> InsertAccess(c, tailPtr),
                                 frameWrites |-> {}]
          ELSE UNCHANGED << msgMatrix, msgCharPtr, tailPtr, insertions,
                            lastInsert, access >>
       /\ windowPtr' = WrapWindow(w)
  /\ cycles' = IF counted THEN cycles + 1 ELSE cycles
  /\ pc' = "fill"
  /\ UNCHANGED << scan, msg, hwBuffer, rowPin, colPin, clock, lastFill >>

Advance == AdvanceStep(TRUE)

Next == Fill \/ Display \/ Advance

Spec == Init /\ [][Next]_vars

\* ------------------------------------------- the two functions on their own
\* insertCharInMatrix and fillHWbuffer applied to arguments of their domain:
\* any character, any column of the message matrix, several contents of it.
CodedMatrix == [r \in Rows |-> [c \in MsgCols |-> FlatOffset(r, c) + 1]]
UnitMatrices == { clearMsgMatrix, CodedMatrix }
UnitChars == TableChars \cup {"?"}

InitUnit ==
  /\ pc = "unit"
  /\ msg = << >>
  /\ InitLocals

\* insertCharInMatrix(c, msgMatrix, columnPtr)
UnitInsert ==
  /\ pc = "unit"
  /\ \E base \in UnitMatrices, c \in UnitChars, columnPtr \in MsgCols :
     \E M \in InsertOutcomes(c, base, columnPtr) :
       /\ msgMatrix' = M
       /\ lastInsert' = [c |-> c, columnPtr |-> columnPtr, before |-> base]
       /\ access' = [ringReads |-> {}, ringWrites |-> InsertAccess(c, columnPtr),
                     frameWrites |-> {}]
  /\ insertions' = insertions + 1
  /\ pc' = "inserted"
  /\ UNCHANGED << scan, msg, hwBuffer, tailPtr, windowPtr, msgCharPtr, rowPin,
                  colPin, clock, cycles, lastFill >>

\* fillHWbuffer(windowColPtr, msgMatrix, hwBuffer): on one of the contents
\* above at any window, or after an insertion at the insertion column
UnitFill ==
  /\ pc \in {"unit", "inserted"}
  /\ \E base \in (IF pc = "unit" THEN UnitMatrices ELSE {msgMatrix}),
        windowColPtr \in (IF pc = "unit" THEN MsgCols
                          ELSE {lastInsert.columnPtr}) :
     \E f \in FillOutcomes(windowColPtr, base) :
       /\ msgMatrix' = base
       /\ hwBuffer' = f
       /\ lastFill' = windowColPtr
       /\ access' = [ringReads |-> FillReads(windowColPtr), ringWrites |-> {},
                     frameWrites |-> FillWrites]
  /\ pc' = "filled"
  /\ UNCHANGED << scan, msg, tailPtr, windowPtr, msgCharPtr, rowPin, colPin, clock,
                  cycles, insertions, lastInsert >>

\* a second insertCharInMatrix at the column of the first: of the same
\* character or of one of two others
UnitSecondChars == {" ", "h"}
UnitInsertAgain ==
  /\ pc = "inserted"
  /\ \E c \in {lastInsert.c} \cup UnitSecondChars :
     \E M \in InsertOutcomes(c, msgMatrix, lastInsert.columnPtr) :
       /\ msgMatrix' = M
       /\ lastInsert' = [c |-> c, columnPtr |-> lastInsert.columnPtr,
                         before |-> msgMatrix]
       /\ access' = [ringReads |-> {},
                     ringWrites |-> InsertAccess(c, lastInsert.columnPtr),
                     frameWrites |-> {}]
  /\ insertions' = insertions + 1
  /\ pc' = "reinserted"
  /\ UNCHANGED << scan, msg, hwBuffer, tailPtr, windowPtr, msgCharPtr, rowPin,
                  colPin, clock, cycles, lastFill >>

NextUnit == UnitInsert \/ UnitInsertAgain \/ UnitFill

SpecUnit == InitUnit /\ [][NextUnit]_vars

\* ------------------------------------------ displayHWbuffer step by step
\* One call of displayHWbuffer(HWmatrix, columnTime, interval), entered with
\* every column line low (as setup and every earlier call leave them), on
\* several frames and timings; delay(columnTime) advances millis() by
\* columnTime.
DiagonalFrame == [r \in Rows |-> [c \in HWCols |-> IF r = c THEN 1 ELSE 0]]
ScanFrames ==
  UninitFrames \cup {DiagonalFrame}
  \cup { FillResult(w, InsertResult(ch, clearMsgMatrix, 0, "other"), "zero") :
           w \in {0, 1}, ch \in {"h", "i"} }
\* << columnTime, interval >>: the program's own first
ScanTimes == { << INTERCOLUMN_DELAY, SCROLLING_DELAY >>, << 1, 20 >>,
               << 3, SCROLLING_DELAY >>, << 5, SCROLLING_DELAY >>,
               << INTERCOLUMN_DELAY, 0 >> }
ScanClocks == {0, 1000}

InitScan ==
  /\ pc = "scan_call"
  /\ msg = << >>
  /\ msgMatrix = clearMsgMatrix
  /\ hwBuffer \in ScanFrames
  /\ tailPtr = 0 /\ windowPtr = 0 /\ msgCharPtr = 0
  /\ rowPin = [r \in Rows |-> FALSE]
  /\ colPin = AllLow
  /\ clock \in ScanClocks
  /\ cycles = 0 /\ insertions = 0
  /\ lastInsert = NoInsert /\ lastFill = -1 /\ access = NoAccess
  /\ \E t \in ScanTimes :
       scan = [NoScan EXCEPT !.columnTime = t[1], !.interval = t[2]]

ScanFrame == << msg, msgMatrix, hwBuffer, tailPtr, windowPtr, msgCharPtr,
                cycles, insertions, lastInsert, lastFill, access >>

\* unsigned long currentMillis = millis(); previousMillis = currentMillis;
ScanEnter ==
  /\ pc = "scan_call"
  /\ scan' = [scan EXCEPT !.currentMillis = clock, !.previousMillis = clock]
  /\ pc' = "scan_while"
  /\ UNCHANGED << ScanFrame, rowPin, colPin, clock >>

\* (a variant that compares with the column time instead of the interval)
ScanContinuesDwell(sc) == sc.currentMillis - sc.previousMillis < sc.columnTime

\* while (currentMillis - previousMillis < interval)
ScanContinues(sc) == sc.currentMillis - sc.previousMillis < sc.interval

\* the while test: another pass (currentColumnPtr = 0, ledColumn = 0) or return
ScanWhile ==
  /\ pc = "scan_while"
  /\ IF ScanContinues(scan)
     THEN /\ scan' = [scan EXCEPT !.currentColumnPtr = 0, !.ledColumn = 0,
                                  !.asserted = << >>]
          /\ pc' = "scan_rows"
     ELSE /\ scan' = scan
          /\ pc' = "scan_done"
  /\ UNCHANGED << ScanFrame, rowPin, colPin, clock >>

\* the ledRow loop: every row line set from HWmatrix[ledRow][currentColumnPtr]
ScanRows ==
  /\ pc = "scan_rows"
  /\ rowPin' = RowLines(hwBuffer, scan.currentColumnPtr)
  /\ pc' = "scan_on"
  /\ UNCHANGED << ScanFrame, colPin, clock, scan >>

\* digitalWrite(column[ledColumn], HIGH)
ColumnOn(pins, c) == [pins EXCEPT ![c] = TRUE]
ScanOn ==
  /\ pc = "scan_on"
  /\ colPin' = ColumnOn(colPin, scan.ledColumn)
  /\ scan' = [scan EXCEPT !.asserted = Append(@, scan.ledColumn)]
  /\ pc' = "scan_hold"
  /\ UNCHANGED << ScanFrame, rowPin, clock >>

\* (a variant without the delay)
DelayOmitted(now, ms) == now

\* millis() after delay(ms) called at `now`
Delay(now, ms) == now + ms

\* delay(columnTime)
ScanHold ==
  /\ pc = "scan_hold"
  /\ clock' = Delay(clock, scan.columnTime)
  /\ pc' = "scan_off"
  /\ UNCHANGED << ScanFrame, rowPin, colPin, scan >>

\* (a variant that leaves the column on)
ColumnLeftOn(pins, c) == pins

\* digitalWrite(column[ledColumn], LOW)
ColumnOff(pins, c) == [pins EXCEPT ![c] = FALSE]

\* column off, currentColumnPtr++, ledColumn++; after the last column of the
\* pass currentMillis = millis() and back to the while test
ScanOff ==
  /\ pc = "scan_off"
  /\ colPin' = ColumnOff(colPin, scan.ledColumn)
  /\ IF scan.ledColumn + 1 < NUM_HW_COLUMNS
     THEN /\ scan' = [scan EXCEPT !.ledColumn = @ + 1,
                                  !.currentColumnPtr = @ + 1]
          /\ pc' = "scan_rows"
     ELSE /\ scan' = [scan EXCEPT !.ledColumn = @ + 1,
                                  !.currentColumnPtr = @ + 1,
                                  !.currentMillis = clock,
                                  !.passes = IF @ < MaxPasses THEN @ + 1
                                             ELSE @]
          /\ pc' = "scan_while"
  /\ UNCHANGED << ScanFrame, rowPin, clock >>

NextScan == ScanEnter \/ ScanWhile \/ ScanRows \/ ScanOn \/ ScanHold \/ ScanOff

SpecScan == InitScan /\ [][NextScan]_vars

\* the call runs on: nothing else shares the processor
SpecScanFair == SpecScan /\ WF_vars(NextScan)

\* ------------------------------------------------- the loop run forever
\* scrollWindow with displayHWbuffer followed step by step and no bound on
\* the cycles, for the short messages.  Time is counted from each call of
\* displayHWbuffer on: the call uses only differences of millis().
LiveMessages == { m \in Messages : 0 < Len(m) /\ Len(m) <= MaxLiveLen }

InitLive ==
  /\ pc = "fill"
  /\ msg \in LiveMessages
  /\ InitLocals

\* displayHWbuffer(hwBuffer, INTERCOLUMN_DELAY, SCROLLING_DELAY) is called
DisplayCall ==
  /\ pc = "display"
  /\ scan' = NoScan
  /\ clock' = 0
  /\ pc' = "scan_call"
  /\ UNCHANGED << ScanFrame, rowPin, colPin >>

\* displayHWbuffer returns
DisplayReturn ==
  /\ pc = "scan_done"
  /\ pc' = "advance"
  /\ UNCHANGED << ScanFrame, rowPin, colPin, clock, scan >>

AdvanceLive == AdvanceStep(FALSE)

NextLive == Fill \/ DisplayCall \/ NextScan \/ DisplayReturn \/ AdvanceLive

\* one sequential thread of control: the step that is next is taken
SpecLive == InitLive /\ [][NextLive]_vars /\ WF_vars(NextLive)

\* ================================================================= claims
InFrame(r, c) == r \in Rows /\ c \in HWCols
OverTable(m) == \A k \in 1 .. Len(m) : m[k] \in TableChars

\* the column bitmasks of the character in row j of the table
GlyphColumn(j, i) == charDefMatrix[j][i + 2]

\* the bitmask a frame column shows: bit b is set when row NUM_HW_ROWS-1-b is lit
RECURSIVE FrameBits(_, _, _)
FrameBits(f, col, b) ==
  IF b < 0 THEN 0
  ELSE (IF f[NUM_HW_ROWS - 1 - b][col] # 0 THEN Pow2(b) ELSE 0)
       + FrameBits(f, col, b - 1)
FrameBitmask(f, col) == FrameBits(f, col, NUM_HW_ROWS - 1)

\* C1: after fillHWbuffer(window_left, ring, frame), for every window_left in
\* [0, MSG_COLUMNS) and every row r and frame column c, frame[r][c] is
\* ring[r][(window_left + c) mod MSG_COLUMNS].
C1_ExtractorCopiesWindow ==
  pc = "filled" =>
    \A r \in Rows, c \in HWCols :
      hwBuffer[r][c] = msgMatrix[r][(lastFill + c) % NUM_MSG_COLUMNS]

\* C2: after insertCharInMatrix of a table character at any insertion column
\* in [0, MSG_COLUMNS), bit b of glyph column i is at row HW_ROWS-1-b of ring
\* column (insertion_column + i) mod MSG_COLUMNS, and no write used a column
\* index outside [0, MSG_COLUMNS).
C2_RasterizerWritesCircular ==
  (pc = "inserted" /\ lastInsert.c \in TableChars) =>
    LET j == FindChar(lastInsert.c) IN
    /\ \A i \in 0 .. (CHAR_WIDTH - 1), b \in 0 .. (CHAR_HEIGHT - 1) :
         msgMatrix[NUM_HW_ROWS - 1 - b]
                  [(lastInsert.columnPtr + i) % NUM_MSG_COLUMNS]
           = BitAnd(GlyphColumn(j, i), Pow2(b))
    /\ \A w \in access.ringWrites : w[2] \in MsgCols

\* C3: while a message over the table's characters is scrolled, every read of
\* the ring buffer by the extractor, every write to it by the rasterizer and
\* every write to the frame uses a row and a column index in range.
C3_AllAccessesInRange ==
  (Len(msg) > 0 /\ OverTable(msg)) =>
    /\ \A a \in access.ringReads \cup access.ringWrites : InMsgMatrix(a[1], a[2])
    /\ \A a \in access.frameWrites : InFrame(a[1], a[2])

\* C4: a table character rasterized into a blank ring buffer at column 0, 6 or
\* 12 and extracted at that column gives a frame whose first CHAR_WIDTH
\* columns show exactly the glyph's column bitmasks.
C4_GlyphRoundTrip ==
  ( /\ pc = "filled"
    /\ insertions = 1
    /\ lastInsert.c \in TableChars
    /\ lastInsert.before = clearMsgMatrix
    /\ lastInsert.columnPtr \in {0, CHAR_WIDTH, 2 * CHAR_WIDTH}
    /\ lastFill = lastInsert.columnPtr ) =>
    \A i \in 0 .. (CHAR_WIDTH - 1) :
      FrameBitmask(hwBuffer, i) = GlyphColumn(FindChar(lastInsert.c), i)

\* the character the k-th insertion (k = 0, 1, ...) is due to insert
MsgCycled(k) == msg[(k % Len(msg)) + 1]

\* C5: for a non-empty message of length L the k-th glyph insertion is for
\* msg[k mod L], never for the terminator: stated of the last insertion made.
C5_MessageLooping ==
  (Len(msg) > 0 /\ insertions > 0) =>
    /\ lastInsert.c = MsgCycled(insertions - 1)
    /\ lastInsert.c # NUL

\* C6: a cycle inserts a glyph exactly when the incremented window_pointer is
\* a multiple of CHAR_WIDTH; after n cycles floor(n / CHAR_WIDTH) glyphs are
\* inserted, and at a cycle start window_pointer is a multiple of CHAR_WIDTH
\* exactly every CHAR_WIDTH cycles (so 6 cycles from a character boundary lead
\* to the next one with one glyph inserted).
C6_AfterCycles ==
  /\ insertions = cycles \div CHAR_WIDTH
  /\ pc = "fill" => windowPtr % CHAR_WIDTH = cycles % CHAR_WIDTH
C6_Cycle ==
  cycles' = cycles + 1 =>
    /\ insertions' \in {insertions, insertions + 1}
    /\ insertions' = insertions + 1 <=> (windowPtr + 1) % CHAR_WIDTH = 0
C6_ScrollCadence == [](C6_AfterCycles) /\ [][C6_Cycle]_vars

\* two character widths from the start: the window is at the second boundary
\* and the second glyph is in
C6_Witness ==
  pc = "fill" /\ cycles = 2 * CHAR_WIDTH /\ windowPtr = 2 * CHAR_WIDTH
  /\ insertions = 2

\* the frame fillHWbuffer would extract at window_left is entirely unlit
BlankAt(window_left) ==
  \A f \in FillOutcomes(window_left, msgMatrix) :
    \A r \in Rows, c \in HWCols : f[r][c] = 0

\* the frame extracted at window_left covers ring column k
Covers(window_left, k) ==
  \E c \in HWCols : \A r \in Rows \ {0} : FillIndex(window_left, r, c) = k

\* ring columns k .. k+CHAR_WIDTH-1 hold the bitmap of table character c
CellHolds(M, k, c) ==
  /\ c \in TableChars
  /\ \A i \in 0 .. (CHAR_WIDTH - 1) :
       /\ M[0][k + i] = 0
       /\ \A b \in 0 .. (CHAR_HEIGHT - 1) :
            M[NUM_HW_ROWS - 1 - b][k + i]
              = BitAnd(GlyphColumn(FindChar(c), i), Pow2(b))
CellBlank(M, k) ==
  \A i \in 0 .. (CHAR_WIDTH - 1), r \in Rows : M[r][k + i] = 0

IsHi == msg = << " ", "h", "i" >>

\* C7: message " hi": after 6 cycles the frame extracted at window_left = 0
\* is blank, and after 12 cycles the frame extracted at the current
\* window_pointer covers the ring column holding the first column of 'h'.
C7_EndToEnd ==
  (IsHi /\ pc = "fill") =>
    /\ cycles = CHAR_WIDTH => BlankAt(0)
    /\ cycles = 2 * CHAR_WIDTH =>
         /\ lastInsert.c = "h"
         /\ Covers(windowPtr, lastInsert.columnPtr)

\* C7 as amended: after 12 cycles 'h' is in ring columns 6..11 and the frame
\* extracted at the current window_pointer (12) does not cover them; the frame
\* first covers the first column of 'h' after 17 cycles, in its last column.
C7_EndToEndAmended ==
  (IsHi /\ pc = "fill") =>
    /\ cycles = CHAR_WIDTH => BlankAt(0)
    /\ cycles = 2 * CHAR_WIDTH =>
         /\ lastInsert.c = "h" /\ lastInsert.columnPtr = CHAR_WIDTH
         /\ windowPtr = 2 * CHAR_WIDTH
    /\ cycles \in (2 * CHAR_WIDTH) .. (3 * CHAR_WIDTH - 2) =>
         /\ CellHolds(msgMatrix, CHAR_WIDTH, "h")
         /\ \A i \in 0 .. (CHAR_WIDTH - 1) : ~Covers(windowPtr, CHAR_WIDTH + i)
    /\ cycles = 3 * CHAR_WIDTH - 1 =>
         /\ CellHolds(msgMatrix, CHAR_WIDTH, "h")
         /\ \A r \in Rows :
              FillIndex(windowPtr, r, NUM_HW_COLUMNS - 1) = CHAR_WIDTH

C7_Witness ==
  IsHi /\ pc = "fill" /\ cycles = 3 * CHAR_WIDTH - 1
  /\ windowPtr = 3 * CHAR_WIDTH - 1

C9_AtCycleStart ==
  pc = "fill" =>
    /\ windowPtr \in MsgCols
    /\ tailPtr \in {0, CHAR_WIDTH, 2 * CHAR_WIDTH}
C9_Cycle ==
  cycles' = cycles + 1 =>
    /\ windowPtr' = (windowPtr + 1) % NUM_MSG_COLUMNS
    /\ insertions' = insertions + 1 =>
         tailPtr' = (tailPtr + CHAR_WIDTH) % NUM_MSG_COLUMNS
    /\ insertions' = insertions =>
         (tailPtr' = tailPtr /\ msgCharPtr' = msgCharPtr)
C9_PointerInvariants == [](C9_AtCycleStart) /\ [][C9_Cycle]_vars

\* both pointers have just wrapped to 0
C9_Witness ==
  pc = "fill" /\ cycles = NUM_MSG_COLUMNS /\ windowPtr = 0 /\ tailPtr = 0
  /\ insertions = MAX_CHARS_DISPLAYED

\* C10: an insertion of a message character that is not in the glyph table
\* leaves every cell of the ring buffer as it was, advances message_cursor by
\* 1 from the character's index and tail_pointer by CHAR_WIDTH modulo
\* MSG_COLUMNS, and both stay in their ranges.
C10_Insertion ==
  ( /\ Len(msg) > 0
    /\ insertions' = insertions + 1
    /\ lastInsert'.c \notin TableChars ) =>
    /\ msgMatrix' = msgMatrix
    /\ msgCharPtr' = (IF msgCharPtr = Len(msg) THEN 0 ELSE msgCharPtr) + 1
    /\ tailPtr' = (tailPtr + CHAR_WIDTH) % NUM_MSG_COLUMNS
    /\ msgCharPtr' \in 0 .. Len(msg)
    /\ tailPtr' \in {0, CHAR_WIDTH, 2 * CHAR_WIDTH}
C10_UnknownCharacter == [][C10_Insertion]_vars

\* ------------------------------------------------------------ scan driver
ColumnsHigh == { c \in HWCols : colPin[c] }

\* C11: during displayHWbuffer at most one column line is high; in each pass
\* the columns are turned on in the order 0, 1, ..., HW_COLUMNS-1, each once,
\* and a column is turned on only when every column line is low.
C11_OneColumn ==
  /\ Cardinality(ColumnsHigh) <= 1
  /\ Len(scan.asserted) <= NUM_HW_COLUMNS
  /\ \A i \in 1 .. Len(scan.asserted) : scan.asserted[i] = i - 1
  /\ (pc \in {"scan_while", "scan_done"} /\ scan.passes > 0) =>
       Len(scan.asserted) = NUM_HW_COLUMNS
C11_TurnOn ==
  (\E c \in HWCols : colPin'[c] /\ ~colPin[c]) => colPin = AllLow
C11_MutualExclusion == [](C11_OneColumn) /\ [][C11_TurnOn]_vars

\* the last column of the second pass is on
C11_Witness ==
  pc = "scan_hold" /\ scan.passes = 1 /\ colPin[NUM_HW_COLUMNS - 1]
  /\ Len(scan.asserted) = NUM_HW_COLUMNS

\* C12: with a clock that advances by column_dwell_ms at each hold,
\* displayHWbuffer returns, and only after a whole number of scan passes, with
\* every column line low and at least total_duration_ms elapsed since its
\* start; with dwell 2 ms and duration 60 ms it makes exactly 4 passes.
C12_AtReturn ==
  pc = "scan_done" =>
    /\ clock - scan.previousMillis >= scan.interval
    /\ clock - scan.previousMillis = scan.passes * PassTime(scan.columnTime)
    /\ scan.passes = DisplayPasses(0, scan.columnTime, scan.interval)
    /\ colPin = AllLow
    /\ scan.passes > 0 => Len(scan.asserted) = NUM_HW_COLUMNS
    /\ (scan.passes > 0 /\ scan.interval > 0) =>
         (scan.passes - 1) * PassTime(scan.columnTime) < scan.interval
    /\ (scan.columnTime = INTERCOLUMN_DELAY /\ scan.interval = SCROLLING_DELAY)
         => scan.passes = 4
C12_BlockingBounded == [](C12_AtReturn) /\ <>(pc = "scan_done")

C12_Witness ==
  pc = "scan_done" /\ scan.columnTime = INTERCOLUMN_DELAY
  /\ scan.interval = SCROLLING_DELAY /\ scan.passes = 4
  /\ clock - scan.previousMillis = 64

\* C15: whenever column line c is high, row line r is high exactly when
\* frame[r][c] is lit, for every row r; the row lines change only while every
\* column line is low.
C15_RowsMatch ==
  \A c \in HWCols : colPin[c] =>
    \A r \in Rows : rowPin[r] <=> hwBuffer[r][c] # 0
C15_RowChange ==
  rowPin' # rowPin => (colPin = AllLow /\ colPin' = AllLow)
C15_RowColumnConsistency == [](C15_RowsMatch) /\ [][C15_RowChange]_vars

\* a column of the frame of 'h' is on with its own pattern, which is not the
\* pattern of the column before it
C15_Witness ==
  /\ pc = "scan_hold"
  /\ colPin[2]
  /\ rowPin = RowLines(hwBuffer, 2)
  /\ rowPin # RowLines(hwBuffer, 1)
  /\ hwBuffer # DiagonalFrame

\* C13: the loop has no terminal state: in every reachable state its next
\* step is enabled and control is inside the loop; every cycle completes, so
\* the window pointer moves again and again and glyphs are inserted again and
\* again.
C13_InLoop ==
  /\ pc \in {"fill", "display", "scan_call", "scan_while", "scan_rows",
             "scan_on", "scan_hold", "scan_off", "scan_done", "advance"}
  /\ ENABLED NextLive
C13_NoTerminalState ==
  /\ [](C13_InLoop)
  /\ \A w \in {0, 1} : []<>(pc = "fill" /\ windowPtr = w)
  /\ \A t \in {0, CHAR_WIDTH} : []<>(pc = "fill" /\ tailPtr = t)

\* the window has wrapped and the display of the next frame is under way
C13_Witness ==
  pc = "scan_hold" /\ windowPtr = 1 /\ tailPtr = 0 /\ lastFill = 1
  /\ lastInsert.columnPtr = 2 * CHAR_WIDTH

\* C14: a glyph is inserted behind the window: the columns an insertion writes
\* are the CHAR_WIDTH columns from tailPtr on, tailPtr being CHAR_WIDTH columns
\* behind the window of the next frame (modulo NUM_MSG_COLUMNS), and neither
\* these columns nor the cells written are among those the next frame is
\* extracted from.
C14_WindowColumns(w) == { (w + c) % NUM_MSG_COLUMNS : c \in HWCols }
C14_CellsRead(w) == { FlatOffset(p[1], p[2]) : p \in FillReads(w) }
C14_CellsWritten(A) == { FlatOffset(p[1], p[2]) : p \in A.ringWrites }
C14_Step ==
  (pc = "advance" /\ insertions' = insertions + 1) =>
    /\ tailPtr = (windowPtr' + NUM_MSG_COLUMNS - CHAR_WIDTH) % NUM_MSG_COLUMNS
    /\ lastInsert'.columnPtr = tailPtr
    /\ \A p \in access'.ringWrites :
         /\ InMsgMatrix(p[1], p[2])
         /\ p[2] \in tailPtr .. (tailPtr + CHAR_WIDTH - 1)
         /\ p[2] \notin C14_WindowColumns(windowPtr')
    /\ C14_CellsWritten(access') \cap C14_CellsRead(windowPtr') = {}
    /\ \A k \in MsgCols \ (tailPtr .. (tailPtr + CHAR_WIDTH - 1)) :
         \A r \in Rows : msgMatrix'[r][k] = msgMatrix[r][k]
C14_InsertionBehindWindow == [][C14_Step]_vars

\* 'i' has just been written to the last CHAR_WIDTH columns of the matrix and
\* the window has wrapped to column 0
C14_Witness ==
  /\ pc = "fill"
  /\ windowPtr = 0
  /\ lastInsert.c = "i"
  /\ lastInsert.columnPtr = NUM_MSG_COLUMNS - CHAR_WIDTH
  /\ access.ringWrites # {}
  /\ msgMatrix # lastInsert.before

\* C16: for a non-empty message over the table, column c of the frame
\* displayed in cycle t (t cycles completed) is column t - NUM_MSG_COLUMNS + c
\* of the strip of the glyphs of msg[0], msg[1], ... (the message repeated),
\* blank before column 0: stated of every pixel of the frame on display.
C16_StripLit(m, j, r) ==
  IF j < 0 \/ r = 0 THEN FALSE
  ELSE BitAnd(GlyphColumn(FindChar(m[((j \div CHAR_WIDTH) % Len(m)) + 1]),
                          j % CHAR_WIDTH),
              Pow2(NUM_HW_ROWS - 1 - r)) # 0
C16_FrameIsStrip(rows) ==
  \A r \in rows, c \in HWCols :
    hwBuffer[r][c] # 0 <=> C16_StripLit(msg, cycles - NUM_MSG_COLUMNS + c, r)
C16_EndToEndStrip ==
  (pc = "display" /\ Len(msg) > 0 /\ OverTable(msg)) => C16_FrameIsStrip(Rows)

\* C17: insertCharInMatrix of a table character at column k leaves every cell
\* outside columns k .. k+CHAR_WIDTH-1 as it was and makes rows 1..7 of those
\* columns the bits of the glyph, whatever they held; so a second character
\* inserted at the same column leaves the matrix the second one alone would
\* leave, and the same character inserted twice changes nothing.
C17_Columns(k) == k .. (k + CHAR_WIDTH - 1)
C17_Frame(before, after, k) ==
  \A r \in Rows, col \in MsgCols \ C17_Columns(k) :
    after[r][col] = before[r][col]
C17_Glyph(after, c, k) ==
  \A i \in 0 .. (CHAR_WIDTH - 1), b \in 0 .. (CHAR_HEIGHT - 1) :
    (k + i) \in MsgCols =>
      after[NUM_HW_ROWS - 1 - b][k + i]
        = BitAnd(GlyphColumn(FindChar(c), i), Pow2(b))
C17_First ==
  (pc = "unit" /\ pc' = "inserted" /\ lastInsert'.c \in TableChars) =>
    /\ C17_Frame(lastInsert'.before, msgMatrix', lastInsert'.columnPtr)
    /\ C17_Glyph(msgMatrix', lastInsert'.c, lastInsert'.columnPtr)
C17_Second ==
  ( /\ pc = "inserted" /\ pc' = "reinserted"
    /\ lastInsert.c \in TableChars /\ lastInsert'.c \in TableChars ) =>
    /\ C17_Frame(lastInsert.before, msgMatrix', lastInsert.columnPtr)
    /\ C17_Glyph(msgMatrix', lastInsert'.c, lastInsert.columnPtr)
    /\ msgMatrix' \in InsertOutcomes(lastInsert'.c, lastInsert.before,
                                     lastInsert.columnPtr)
    /\ lastInsert'.c = lastInsert.c => msgMatrix' = msgMatrix
C17_RasterizerOverwrites == [][C17_First /\ C17_Second]_vars

\* C18: a cycle of the code (windowPtr++, the boundary test on the value not
\* yet wrapped, the insertion and the advance of the tail, and last the reset
\* of windowPtr at NUM_MSG_COLUMNS) leaves the window pointer, the tail
\* pointer, the message cursor and the ring buffer that the cycle leaves which
\* first sets window_pointer to (window_pointer + 1) mod MSG_COLUMNS and
\* then tests the boundary and advances the tail modulo MSG_COLUMNS.
\* (The specified cycle has one result for a non-empty message, which
\* C18_Step makes the code's; several only where the message is read beyond
\* its terminator.)
C18_Specified ==
  LET w == (windowPtr + 1) % NUM_MSG_COLUMNS IN
  IF IsCharBoundary(w)
  THEN UNION { LET p == IF c0 = NUL THEN 0 ELSE msgCharPtr IN
               { << w, (tailPtr + CHAR_WIDTH) % NUM_MSG_COLUMNS,
                    NextMsgChar(p), M >> :
                   M \in UNION { InsertOutcomes(c, msgMatrix, tailPtr) :
                                   c \in (IF p = msgCharPtr THEN {c0}
                                          ELSE MsgRead(msg, p)) } } :
               c0 \in MsgRead(msg, msgCharPtr) }
  ELSE { << w, tailPtr, msgCharPtr, msgMatrix >> }
C18_Step ==
  (pc = "advance" /\ pc' = "fill") =>
    << windowPtr', tailPtr', msgCharPtr', msgMatrix' >> \in C18_Specified
C18_OneResult ==
  (pc = "advance" /\ Len(msg) > 0) => Cardinality(C18_Specified) = 1
C18_StepOrderEquivalence == [][C18_Step]_vars /\ [](C18_OneResult)

\* the cycle that wraps the window to 0 has inserted the third character
C18_Witness ==
  /\ pc = "fill" /\ cycles = NUM_MSG_COLUMNS /\ windowPtr = 0
  /\ insertions = MAX_CHARS_DISPLAYED /\ tailPtr = 0
  /\ lastInsert.columnPtr = NUM_MSG_COLUMNS - CHAR_WIDTH

\* C19: for every message, the empty one included, at the start of every
\* cycle the message cursor is at most the length of the message, so that the
\* next read of the message, made at the cursor, is not beyond the terminator.
C19_CursorBound ==
  pc = "fill" => (0 <= msgCharPtr /\ msgCharPtr <= Len(msg))

\* C20: in every reachable state every cell of row 0 of the ring buffer is
\* unlit: the rasterizer writes rows NUM_HW_ROWS-1 down to 1 only, from bits
\* 0..6 of a bitmask, so bit 7 of the bitmask 255 of 'b', 'd' and 'h' lights
\* no pixel.
C20_TopRowNeverLit ==
  /\ \A k \in MsgCols : msgMatrix[0][k] = 0
  /\ \A w \in access.ringWrites : w[1] \in Rows \ {0}
  /\ \A c \in {"b", "d", "h"} :
       /\ \E i \in 0 .. (CHAR_WIDTH - 1) :
            GlyphColumn(FindChar(c), i) = ByteMod - 1
       /\ \A w \in InsertWrites(c, tailPtr) : w[1] # 0

\* 'h' is in the ring buffer: the column of bitmask 255 is lit in rows 1..7
C20_Witness ==
  /\ pc = "fill"
  /\ lastInsert.c = "h"
  /\ \E i \in 0 .. (CHAR_WIDTH - 1) :
       /\ GlyphColumn(FindChar("h"), i) = ByteMod - 1
       /\ \A r \in Rows \ {0} : msgMatrix[r][lastInsert.columnPtr + i] # 0
       /\ msgMatrix[0][lastInsert.columnPtr + i] = 0

====
